---- MODULE Spec2Model ----
(***************************************************************************)
(* Model of the document-structure classifier and the pagination engine   *)
(* of word_to_pptx_core.py (WordDocumentAnalyzer, ContentToSlideMapper).  *)
(*                                                                         *)
(* A text is a sequence of characters.  A character is written as a short *)
(* ASCII name ("yi" for U+4E00, "dun" for the ideographic comma, ...);     *)
(* the regular expressions of the source only distinguish characters by   *)
(* the classes below, so every class has at least one representative.     *)
(***************************************************************************)
EXTENDS Integers, Sequences, FiniteSets, TLC

VARIABLES
    pc,                      \* position of the running call
    paragraphs,              \* doc.paragraphs of the loaded document
    blocks,                  \* List[ContentBlock] handed to create_slides
    idx,                     \* 1-based position of the for loop over blocks
    slides,                  \* prs.slides
    current_slide,           \* 0 = None, otherwise index into slides
    current_content,         \* accumulator of the open slide
    current_chapter_title,
    current_content_length,
    arg,                     \* arguments of the helper called last
    ret,                     \* value(s) returned by that helper
    template,                \* the template file the mapper is given
    slide_layouts,           \* prs.slide_layouts (empty while prs is None)
    opts,                    \* the other arguments of convert
    fs,                      \* files written by the call
    result,                  \* the ConversionResult returned by convert
    exc,                     \* the exception a call ended with ("" = none)
    other,                   \* the frame of the thread that is not running
    ui                       \* the front end: its widgets, its worker threads

vars == << pc, paragraphs, blocks, idx, slides, current_slide, current_content,
           current_chapter_title, current_content_length, arg, ret,
           template, slide_layouts, opts, fs, result, exc, other, ui >>

\* what neither the analysis nor the loop of create_slides writes
envVars == << template, slide_layouts, opts, fs, result, other, ui >>

mapperVars == << slides, current_slide, current_content,
                 current_chapter_title, current_content_length >>

(***************************************************************************)
(* Bounds of the model.                                                    *)
(***************************************************************************)
MaxTextLen == 3       \* longest text given to a helper called on its own
MaxParas == 4         \* longest document (paragraphs)
MaxBlocks == 6        \* longest block list given to create_slides directly
MaxRepairBlocks == 3  \* longest block list given to _optimize_structure directly
MaxTemplateSlides == 2  \* most sample slides a template file holds
MaxTemplateBlocks == 3  \* longest block list tried with every template
MaxConvertParas == 2  \* longest document tried with every argument of convert
MaxRuns == 3  \* conversions made one after the other
MaxSwitches == 4  \* most context switches between two concurrent conversions
MaxUploadParas == 4   \* longest document uploaded to the Streamlit page
MaxWorkers == 2   \* most conversion workers started in one session of the desktop window

(***************************************************************************)
(* Character classes used by the regular expressions.                      *)
(***************************************************************************)
CJKNumeral == {"yi", "er", "shi"}                    \* [一二三四五六七八九十]
FormalNumeral == {"yi_formal", "shi_formal"}         \* 壹貳參肆伍陸柒捌玖拾
Separator == {"dun", "fullwidth_dot", "."}           \* [、．.]
SectionUnit == {"zhang", "jie", "bu", "fen"}         \* [章節部分]
CloseParen == {"fullwidth_rparen", ")"}              \* [）)]
NonZeroDigit == {"1", "2"}                           \* [1-9]
Digit == NonZeroDigit \cup {"0", "fullwidth_1"}      \* \d (Unicode decimal digits)
LowerLetter == {"a", "b"}                            \* [a-z]
UpperLetter == {"A", "B"}                            \* [A-Z]
SubtitleBullet == {"bullet", "middle_dot", "white_circle"}             \* [•·○]
ChapterBullet == {"black_circle", "diamond", "square", "triangle"}     \* [●◆■▲]
Whitespace == {" ", "ideographic_space"}             \* \s and str.strip()

\* characters below U+0080; every other character is wider
Ascii == {".", ")", "(", "0", "1", "2", "a", "b", "A", "B", " "}

\* regular-expression elements: one character of a class, or a greedy run
One(c) == [cls |-> c, rep |-> "1"]
Plus(c) == [cls |-> c, rep |-> "+"]
Star(c) == [cls |-> c, rep |-> "*"]
Lit(ch) == One({ch})

\* length of the longest run of characters of cls in text after position pos
RECURSIVE Run(_, _, _)
Run(cls, text, pos) ==
    IF pos < Len(text) /\ text[pos + 1] \in cls
    THEN 1 + Run(cls, text, pos + 1)
    ELSE 0

\* Greedy match of the elements pat[i..] at position pos (characters already
\* consumed); the number of characters consumed by the whole match, or -1.
\* In every pattern of the source a repeated class is disjoint from the class
\* that follows it, so the greedy run is the only possible match.
RECURSIVE MatchFrom(_, _, _, _)
MatchFrom(pat, i, text, pos) ==
    IF i > Len(pat) THEN pos
    ELSE LET e == pat[i]
             n == Run(e.cls, text, pos)
         IN  CASE e.rep = "1" -> IF n >= 1 THEN MatchFrom(pat, i + 1, text, pos + 1) ELSE -1
               [] e.rep = "+" -> IF n >= 1 THEN MatchFrom(pat, i + 1, text, pos + n) ELSE -1
               [] e.rep = "*" -> MatchFrom(pat, i + 1, text, pos + n)

\* re.match(pattern, text) for a pattern anchored with ^
re_match(pat, text) == MatchFrom(pat, 1, text, 0) >= 0

\* re.sub(pattern, '', text) for a pattern anchored with ^ (no MULTILINE flag):
\* only a match at the start of the text is removed
re_sub(pat, text) ==
    LET n == MatchFrom(pat, 1, text, 0)
    IN  IF n >= 0 THEN SubSeq(text, n + 1, Len(text)) ELSE text

RECURSIVE lstrip(_)
lstrip(text) ==
    IF text # << >> /\ Head(text) \in Whitespace THEN lstrip(Tail(text)) ELSE text

RECURSIVE rstrip(_)
rstrip(text) ==
    IF text # << >> /\ text[Len(text)] \in Whitespace
    THEN rstrip(SubSeq(text, 1, Len(text) - 1))
    ELSE text

\* str.strip()
strip(text) == rstrip(lstrip(text))

(***************************************************************************)
(* WordDocumentAnalyzer                                                    *)
(***************************************************************************)
chapter_patterns == <<
    << Plus(CJKNumeral), One(Separator), Star(Whitespace) >>,
    << Lit("di"), Plus(CJKNumeral \cup FormalNumeral), One(SectionUnit), Star(Whitespace) >>,
    << Lit("di"), Plus(CJKNumeral), One(Separator), Star(Whitespace) >>,
    << Lit("qian"), Lit("yan"), Star(Whitespace) >>,
    << Lit("jie_knot"), Lit("lun"), Star(Whitespace) >>,
    << Lit("zong"), Lit("jie_knot"), Star(Whitespace) >>,
    << Lit("gai"), Lit("shu"), Star(Whitespace) >>,
    << Lit("zhai"), Lit("yao"), Star(Whitespace) >>,
    << Lit("xu"), Lit("yan"), Star(Whitespace) >>,
    << Lit("yin"), Lit("yan"), Star(Whitespace) >>
>>

subtitle_patterns == <<
    << Plus(CJKNumeral), One(CloseParen), Star(Whitespace) >>,
    << Lit("("), Plus(CJKNumeral), Lit(")"), Star(Whitespace) >>,
    << One(NonZeroDigit), Star(Digit), One(CloseParen), Star(Whitespace) >>,
    << Lit("("), One(NonZeroDigit), Star(Digit), Lit(")"), Star(Whitespace) >>,
    << One(LowerLetter), One(CloseParen), Star(Whitespace) >>,
    << Lit("("), One(LowerLetter), Lit(")"), Star(Whitespace) >>,
    << One(SubtitleBullet), Star(Whitespace) >>
>>

\* FirstMatch with a loop that stops one pattern early
RECURSIVE FirstMatch_skip_last(_, _, _)
FirstMatch_skip_last(patterns, i, text) ==
    IF i >= Len(patterns) THEN 0
    ELSE IF re_match(patterns[i], text) THEN i
    ELSE FirstMatch_skip_last(patterns, i + 1, text)

\* the loop "for pattern in patterns: if re.match(pattern, text): return ..."
\* reaches its return at the first matching pattern; 0 when it falls through
RECURSIVE FirstMatch(_, _, _)
FirstMatch(patterns, i, text) ==
    IF i > Len(patterns) THEN 0
    ELSE IF re_match(patterns[i], text) THEN i
    ELSE FirstMatch(patterns, i + 1, text)

_classify_content(text) ==
    IF FirstMatch(chapter_patterns, 1, text) > 0 THEN << 0, "chapter" >>
    ELSE IF FirstMatch(subtitle_patterns, 1, text) > 0 THEN << 1, "subtitle" >>
    ELSE << 2, "content" >>

RECURSIVE _estimate_text_length(_)
_estimate_text_length(text) ==
    IF text = << >> THEN 0
    ELSE (IF Head(text) \in Ascii THEN 1 ELSE 2) + _estimate_text_length(Tail(text))

\* a ContentBlock; formatting is kept to the one key the analysis reads
ContentBlock(text, level, content_type, bold, estimated_length) ==
    [text |-> text, level |-> level, content_type |-> content_type,
     formatting |-> [bold |-> bold], estimated_length |-> estimated_length]

\* the first run's bold flag; False when the paragraph has no runs
_extract_formatting(para) == [bold |-> para.bold]

_classify_header(para) ==
    [text |-> strip(para.text), level |-> 0, content_type |-> "header",
     formatting |-> _extract_formatting(para), estimated_length |-> 0]

_analyze_paragraph(para) ==
    LET text == strip(para.text)
        c == _classify_content(text)
    IN  [text |-> text, level |-> c[1], content_type |-> c[2],
         formatting |-> _extract_formatting(para), estimated_length |-> 0]

\* FirstPromotable with "level < 1" for "level <= 1"
RECURSIVE FirstPromotable_strict(_, _)
FirstPromotable_strict(bs, i) ==
    IF i > Len(bs) THEN 0
    ELSE IF bs[i].level < 1 \/ bs[i].formatting.bold THEN i
    ELSE FirstPromotable_strict(bs, i + 1)

\* index of the first block the repair loop promotes; 0 when the loop ends
\* without reaching its break
RECURSIVE FirstPromotable(_, _)
FirstPromotable(bs, i) ==
    IF i > Len(bs) THEN 0
    ELSE IF bs[i].level <= 1 \/ bs[i].formatting.bold THEN i
    ELSE FirstPromotable(bs, i + 1)

_optimize_structure(bs) ==
    IF bs = << >> THEN bs
    ELSE LET has_chapter == \E i \in 1..Len(bs) : bs[i].content_type = "chapter"
             k == FirstPromotable(bs, 1)
         IN  IF ~has_chapter /\ k > 0
             THEN [bs EXCEPT ![k] = [@ EXCEPT !.level = 0, !.content_type = "chapter"]]
             ELSE bs

\* AnalyzeFrom with a skipped paragraph using up the header position
RECURSIVE AnalyzeFrom_blank_counts(_, _, _)
AnalyzeFrom_blank_counts(paras, i, header_line) ==
    IF i > Len(paras) THEN << >>
    ELSE IF strip(paras[i].text) = << >> THEN AnalyzeFrom_blank_counts(paras, i + 1, FALSE)
    ELSE LET block == IF header_line THEN _classify_header(paras[i])
                      ELSE _analyze_paragraph(paras[i])
         IN  << [block EXCEPT !.estimated_length = _estimate_text_length(block.text)] >>
             \o AnalyzeFrom_blank_counts(paras, i + 1, FALSE)

\* the loop body of analyze_document over paras[i..]: header_line is True
\* until the first paragraph that is not skipped
RECURSIVE AnalyzeFrom(_, _, _)
AnalyzeFrom(paras, i, header_line) ==
    IF i > Len(paras) THEN << >>
    ELSE IF strip(paras[i].text) = << >> THEN AnalyzeFrom(paras, i + 1, header_line)
    ELSE LET block == IF header_line THEN _classify_header(paras[i])
                      ELSE _analyze_paragraph(paras[i])
         IN  << [block EXCEPT !.estimated_length = _estimate_text_length(block.text)] >>
             \o AnalyzeFrom(paras, i + 1, FALSE)

analyze_document(paras) == _optimize_structure(AnalyzeFrom(paras, 1, TRUE))

(***************************************************************************)
(* ContentToSlideMapper                                                    *)
(***************************************************************************)
max_content_length == 220
max_content_items == 4

chapter_clean_patterns == <<
    << Plus(CJKNumeral), One(Separator), Star(Whitespace) >>,
    << Lit("di"), Plus(CJKNumeral \cup FormalNumeral), One(SectionUnit), Star(Whitespace) >>,
    << Lit("di"), Plus(CJKNumeral), One(Separator), Star(Whitespace) >>,
    << One(NonZeroDigit), Star(Digit), One(Separator), Star(Whitespace) >>,
    << Lit("di"), One(NonZeroDigit), Star(Digit), One(SectionUnit), Star(Whitespace) >>,
    << Lit("di"), One(NonZeroDigit), Star(Digit), One(Separator), Star(Whitespace) >>,
    << One(UpperLetter), One(Separator), Star(Whitespace) >>,
    << Lit("di"), One(UpperLetter), One(SectionUnit), Star(Whitespace) >>,
    << One(ChapterBullet), Star(Whitespace) >>
>>

subtitle_clean_patterns == <<
    << Plus(CJKNumeral), One(CloseParen), Star(Whitespace) >>,
    << Lit("("), Plus(CJKNumeral), Lit(")"), Star(Whitespace) >>,
    << One(NonZeroDigit), Star(Digit), One(CloseParen), Star(Whitespace) >>,
    << Lit("("), One(NonZeroDigit), Star(Digit), Lit(")"), Star(Whitespace) >>,
    << One(LowerLetter), One(CloseParen), Star(Whitespace) >>,
    << Lit("("), One(LowerLetter), Lit(")"), Star(Whitespace) >>,
    << One(SubtitleBullet), Star(Whitespace) >>
>>

\* "for pattern in patterns: cleaned_text = re.sub(pattern, '', cleaned_text)"
RECURSIVE SubAll(_, _, _)
SubAll(patterns, i, text) ==
    IF i > Len(patterns) THEN text
    ELSE SubAll(patterns, i + 1, re_sub(patterns[i], text))

_clean_chapter_text(text) == strip(SubAll(chapter_clean_patterns, 1, text))

_clean_subtitle_text(text) == strip(SubAll(subtitle_clean_patterns, 1, text))

\* the suffix " (續)" of a continuation slide's title
ContinuedSuffix == << " ", "(", "xu_continued", ")" >>

\* _should_create_new_slide with a length check that forgets the new block
_should_create_new_slide_ignores_new(content, current_length, new_block) ==
    IF Len(content) >= max_content_items THEN TRUE
    ELSE IF current_length > max_content_length THEN TRUE
    ELSE IF new_block.content_type = "subtitle" /\ Len(content) > 0 THEN TRUE
    ELSE FALSE

\* _should_create_new_slide with ">" for ">=" in the item check
_should_create_new_slide_off_by_one(content, current_length, new_block) ==
    IF Len(content) > max_content_items THEN TRUE
    ELSE IF current_length + new_block.estimated_length > max_content_length THEN TRUE
    ELSE IF new_block.content_type = "subtitle" /\ Len(content) > 0 THEN TRUE
    ELSE FALSE

_should_create_new_slide(content, current_length, new_block) ==
    IF Len(content) >= max_content_items THEN TRUE
    ELSE IF current_length + new_block.estimated_length > max_content_length THEN TRUE
    ELSE IF new_block.content_type = "subtitle" /\ Len(content) > 0 THEN TRUE
    ELSE FALSE

\* A slide layout, by what _get_best_layout reads of its name:
\* whether name.lower() contains 'title', whether it contains 'content'.
Layout(title, content) == [title |-> title, content |-> content]

\* first index i >= from with layouts[i] satisfying the test of the loop; 0 if none
RECURSIVE FirstLayout(_, _, _)
FirstLayout(layouts, from, layout_type) ==
    IF from > Len(layouts) THEN 0
    ELSE IF (layout_type = "title" /\ (layouts[from].title \/ from = 1))
            \/ (layout_type # "title" /\ layouts[from].content)
         THEN from
    ELSE FirstLayout(layouts, from + 1, layout_type)

\* the 1-based index of the layout _get_best_layout returns; 0 when its last
\* line, slide_layouts[0], raises IndexError (no layout at all)
_get_best_layout(layouts, layout_type) ==
    LET i == FirstLayout(layouts, 1, layout_type)
    IN  IF i # 0 THEN i
        ELSE IF layout_type # "title" /\ Len(layouts) > 1 THEN 2
        ELSE IF Len(layouts) >= 1 THEN 1 ELSE 0

\* A slide as the presentation holds it: the layout kind asked of
\* _get_best_layout and the layout it returned, the text of its title
\* placeholder and the paragraphs of its body placeholder (idx 1); content
\* keeps the blocks those paragraphs were written from.
_create_title_slide(block) ==
    [layout |-> "title", layout_index |-> _get_best_layout(slide_layouts, "title"),
     title |-> _clean_chapter_text(block.text),
     body |-> << >>, content |-> << >>]

_create_content_slide(block) ==
    [layout |-> "content", layout_index |-> _get_best_layout(slide_layouts, "content"),
     title |-> _clean_subtitle_text(block.text),
     body |-> << >>, content |-> << >>]

\* ContinuationBlock without the " (續)" suffix
ContinuationBlock_no_suffix(title) == ContentBlock(title, 0, "chapter", FALSE, 0)

\* the chapter_block built for a continuation slide
ContinuationBlock(title) == ContentBlock(title \o ContinuedSuffix, 0, "chapter", FALSE, 0)

\* _finalize_slide writing the body lines through the sub-heading cleaner
_finalize_slide_cleaned(ss, s, content_blocks) ==
    IF s = 0 \/ content_blocks = << >> THEN ss
    ELSE [ss EXCEPT ![s] = [@ EXCEPT
             !.body = [i \in 1..Len(content_blocks) |->
                          _clean_subtitle_text(content_blocks[i].text)],
             !.content = content_blocks]]

\* _finalize_slide(slide, content_blocks) applied to slide number s of ss
_finalize_slide(ss, s, content_blocks) ==
    IF s = 0 \/ content_blocks = << >> THEN ss
    ELSE [ss EXCEPT ![s] = [@ EXCEPT
             !.body = [i \in 1..Len(content_blocks) |-> content_blocks[i].text],
             !.content = content_blocks]]

(***************************************************************************)
(* Inputs.                                                                 *)
(***************************************************************************)
\* all texts of at most n characters over the alphabet A
Texts(A, n) == UNION { [1..k -> A] : k \in 0..n }

\* all sequences of at most n elements of S
SeqsUpTo(S, n) == UNION { [1..k -> S] : k \in 0..n }

\* "nei" stands for any character outside every class
ClassifyAlphabet ==
    {"yi", "dun", "di", "zhang", "yi_formal", "qian", "yan",
     "(", ")", "1", "0", "a", "bullet", " ", "nei"}

CleanAlphabet ==
    {"yi", "dun", "di", "zhang", "1", "A", "black_circle",
     "(", ")", "a", "bullet", " ", "nei"}

Paragraph(text, bold) == [text |-> text, bold |-> bold]

\* paragraphs a document is made of: a plain title, a chapter heading with a
\* CJK-numeral marker, a keyword chapter heading, body text, an enumerated
\* sub-heading, bold body text, text to be trimmed, blank paragraphs
ParagraphPool ==
    { Paragraph(<< "nei" >>, FALSE),
      Paragraph(<< "yi", "dun", "qian", "yan" >>, FALSE),
      Paragraph(<< "nei", "nei" >>, FALSE),
      Paragraph(<< "(", "1", ")", "nei" >>, FALSE),
      Paragraph(<< "A", "nei" >>, TRUE),
      Paragraph(<< " ", "nei", " " >>, FALSE),
      Paragraph(<< " " >>, FALSE),
      Paragraph(<< >>, FALSE) }

\* blocks handed to create_slides directly: a header and a chapter carrying an
\* enumeration marker, a sub-heading, and body blocks that are short, half a
\* slide long and longer than a slide
BlockPool ==
    { ContentBlock(<< "yi", "dun", "nei" >>, 0, "header", FALSE, 6),
      ContentBlock(<< "yi", "dun", "qian", "yan" >>, 0, "chapter", FALSE, 8),
      ContentBlock(<< "(", "1", ")", "nei" >>, 1, "subtitle", FALSE, 5),
      ContentBlock(<< "nei" >>, 2, "content", FALSE, 10),
      ContentBlock(<< "nei", "A" >>, 2, "content", FALSE, 120),
      ContentBlock(<< "nei", "B" >>, 2, "content", FALSE, 300) }

\* blocks handed to _optimize_structure directly
RepairPool ==
    { ContentBlock(<< "nei" >>, 0, "header", FALSE, 2),
      ContentBlock(<< "yi", "dun" >>, 0, "chapter", FALSE, 4),
      ContentBlock(<< "a", ")" >>, 1, "subtitle", FALSE, 2),
      ContentBlock(<< "nei", "nei" >>, 2, "content", FALSE, 4),
      ContentBlock(<< "A" >>, 2, "content", TRUE, 1),
      ContentBlock(<< "B" >>, 2, "content", FALSE, 1) }

\* A template file: whether Presentation(...) can load it, its layouts and
\* the number of sample slides it holds.
Template(readable, layouts, n_slides) ==
    [readable |-> readable, layouts |-> layouts, n_slides |-> n_slides]

\* the layouts "Title Slide" and "Title and Content"
StandardLayouts == << Layout(TRUE, FALSE), Layout(TRUE, TRUE) >>

\* a template with the usual layouts and one sample slide
StandardTemplate == Template(TRUE, StandardLayouts, 1)

\* a sample slide of the template, as Presentation(...) loads it
TemplateSlide ==
    [layout |-> "template", layout_index |-> 1, title |-> << "A" >>,
     body |-> << << "B" >> >>, content |-> << >>]

\* templates: unreadable, without any layout, with one layout named neither
\* 'title' nor 'content', with two such layouts, and the usual one; each
\* with 0..MaxTemplateSlides sample slides (a slide needs a layout)
TemplatePool ==
    { t \in { Template(r, ls, n) :
                r \in BOOLEAN,
                ls \in { << >>, << Layout(FALSE, FALSE) >>,
                         << Layout(FALSE, FALSE), Layout(FALSE, FALSE) >>,
                         StandardLayouts },
                n \in 0..MaxTemplateSlides } :
        Len(t.layouts) = 0 => t.n_slides = 0 }

\* the arguments of convert other than the two files
Options(document_ok, output_path, generate_preview, save_preview_to_disk) ==
    [document_ok |-> document_ok, output_path |-> output_path,
     generate_preview |-> generate_preview,
     save_preview_to_disk |-> save_preview_to_disk]

DefaultOptions == Options(TRUE, "out.pptx", TRUE, TRUE)

\* nothing written yet: no file at output_path, no preview image on disk
\* (images: the slide numbers whose image file exists in the preview directory)
NoFiles == [output |-> FALSE, images |-> {}]

\* the dataclass ConversionResult; a preview_images of None reads as the
\* empty list, error_message is the sequence of the parts of the string
ConversionResult(success, output_path, preview_images, error_message, slides_count) ==
    [returned |-> TRUE, success |-> success, output_path |-> output_path,
     preview_images |-> preview_images, error_message |-> error_message,
     slides_count |-> slides_count]

\* convert has not returned
NoResult ==
    [returned |-> FALSE, success |-> FALSE, output_path |-> "",
     preview_images |-> << >>, error_message |-> << >>, slides_count |-> 0]

\* The variables of a conversion that belong to the thread making it: its
\* position, the document and blocks, the mapper's presentation (self.prs)
\* and the locals of create_slides.
Frame(tid, switches, position, document, bs, i, ss, layouts, s, content, title, length) ==
    [tid |-> tid, switches |-> switches, pc |-> position, paragraphs |-> document,
     blocks |-> bs, idx |-> i, slides |-> ss, slide_layouts |-> layouts,
     current_slide |-> s, current_content |-> content,
     current_chapter_title |-> title, current_content_length |-> length]

\* a thread about to call convert on document: a new converter, a new mapper
NewThread(tid, document) ==
    Frame(tid, 0, "analyze_document", document, << >>, 1, << >>, << >>, 0, << >>, << >>, 0)

\* no second thread
NoThread == Frame(0, 0, "none", << >>, << >>, 1, << >>, << >>, 0, << >>, << >>, 0)

\* the core called without a front end
NoFrontEnd == [app |-> "none"]

\* the usual template and arguments, nothing written, nothing returned, one
\* thread
Env(t, o) ==
    /\ template = t
    /\ opts = o
    /\ fs = NoFiles
    /\ result = NoResult
    /\ exc = ""
    /\ other = NoThread
    /\ ui = NoFrontEnd

(***************************************************************************)
(* The conversion: analyze_document, then create_slides block by block.   *)
(***************************************************************************)
Idle ==
    /\ blocks = << >>
    /\ idx = 1
    /\ slides = << >>
    /\ slide_layouts = << >>
    /\ current_slide = 0
    /\ current_content = << >>
    /\ current_chapter_title = << >>
    /\ current_content_length = 0

Init ==
    /\ pc = "analyze_document"
    /\ paragraphs \in SeqsUpTo(ParagraphPool, MaxParas)
    /\ Idle
    /\ Env(StandardTemplate, DefaultOptions)
    /\ arg = << >>
    /\ ret = << >>

\* convert, step 1: analyze the document; no block means a failed result
\* analyze_document adding to the blocks of the call before
AnalyzeDocument_accumulates ==
    /\ pc = "analyze_document"
    /\ opts.document_ok
    /\ blocks' = blocks \o analyze_document(paragraphs)
    /\ pc' = IF blocks' = << >> THEN "no_content" ELSE "create_slides"
    /\ UNCHANGED << paragraphs, idx, mapperVars, arg, ret, envVars, exc >>

\* convert going on to create_slides without the "if not blocks" check
AnalyzeDocument_unchecked ==
    /\ pc = "analyze_document"
    /\ opts.document_ok
    /\ blocks' = analyze_document(paragraphs)
    /\ pc' = "create_slides"
    /\ UNCHANGED << paragraphs, idx, mapperVars, arg, ret, envVars, exc >>

\* step 1 of convert: analyze_document returns the blocks
AnalyzeDocument ==
    /\ pc = "analyze_document"
    /\ opts.document_ok
    /\ blocks' = analyze_document(paragraphs)
    /\ pc' = IF blocks' = << >> THEN "no_content" ELSE "create_slides"
    /\ UNCHANGED << paragraphs, idx, mapperVars, arg, ret, envVars, exc >>

\* the slides Presentation(...) loads from the template file
LoadedSlides(t) == [i \in 1..t.n_slides |-> TemplateSlide]

\* create_slides: Presentation(...) loads the template
CreateSlidesBegin ==
    /\ pc = "create_slides"
    /\ template.readable
    /\ slides' = LoadedSlides(template)
    /\ slide_layouts' = template.layouts
    /\ pc' = "clearing"
    /\ UNCHANGED << paragraphs, blocks, idx, current_slide, current_content,
                    current_chapter_title, current_content_length, arg, ret,
                    template, opts, fs, result, exc, other, ui >>

\* one turn of "while len(self.prs.slides) > 0": the first slide is dropped
ClearSlide ==
    /\ pc = "clearing"
    /\ Len(slides) > 0
    /\ slides' = Tail(slides)
    /\ UNCHANGED << pc, paragraphs, blocks, idx, current_slide, current_content,
                    current_chapter_title, current_content_length, arg, ret,
                    envVars, exc >>

\* the clearing loop left while a slide remains
ClearSlidesDone_early ==
    /\ pc = "clearing"
    /\ Len(slides) <= 1
    /\ current_slide' = 0
    /\ current_content' = << >>
    /\ current_chapter_title' = << >>
    /\ current_content_length' = 0
    /\ idx' = 1
    /\ pc' = "loop"
    /\ UNCHANGED << paragraphs, blocks, slides, arg, ret, envVars, exc >>

\* the clearing loop ends, the locals of create_slides are set
ClearSlidesDone ==
    /\ pc = "clearing"
    /\ Len(slides) = 0
    /\ current_slide' = 0
    /\ current_content' = << >>
    /\ current_chapter_title' = << >>
    /\ current_content_length' = 0
    /\ idx' = 1
    /\ pc' = "loop"
    /\ UNCHANGED << paragraphs, blocks, slides, arg, ret, envVars, exc >>

\* create_slides when Presentation(...) raises on the template
TemplateLoadError ==
    /\ pc = "create_slides"
    /\ ~template.readable
    /\ pc' = "raised"
    /\ exc' = "PackageNotFoundError"
    /\ UNCHANGED << paragraphs, blocks, idx, mapperVars, arg, ret, envVars >>

OnHeader(block) ==
    /\ block.content_type = "header"
    /\ slides' = Append(_finalize_slide(slides, current_slide, current_content),
                        _create_title_slide(block))
    /\ current_slide' = Len(slides) + 1
    /\ current_content' = << >>
    /\ current_chapter_title' = _clean_chapter_text(block.text)
    /\ current_content_length' = 0
    /\ arg' = arg

OnChapter(block) ==
    /\ block.content_type = "chapter"
    /\ slides' = Append(_finalize_slide(slides, current_slide, current_content),
                        _create_content_slide(block))
    /\ current_slide' = Len(slides) + 1
    /\ current_content' = << >>
    /\ current_chapter_title' = block.text
    /\ current_content_length' = 0
    /\ arg' = arg

\* OnSubtitle breaking only when the open slide already has content
OnSubtitle_conditional(block) ==
    /\ block.content_type = "subtitle"
    /\ IF current_slide # 0 /\ current_content = << >>
       THEN /\ slides' = slides
            /\ current_slide' = current_slide
       ELSE /\ slides' = Append(_finalize_slide(slides, current_slide, current_content),
                                _create_content_slide(ContinuationBlock(current_chapter_title)))
            /\ current_slide' = Len(slides) + 1
    /\ current_content' = << block >>
    /\ current_content_length' = block.estimated_length
    /\ UNCHANGED << current_chapter_title, arg >>

\* OnSubtitle asking _should_create_new_slide first, as the content branch does
OnSubtitle_asks(block) ==
    /\ block.content_type = "subtitle"
    /\ arg' = << current_content, current_content_length, block >>
    /\ IF _should_create_new_slide(current_content, current_content_length, block)
          \/ current_slide = 0
       THEN /\ slides' = Append(_finalize_slide(slides, current_slide, current_content),
                                _create_content_slide(ContinuationBlock(current_chapter_title)))
            /\ current_slide' = Len(slides) + 1
            /\ current_content' = << block >>
            /\ current_content_length' = block.estimated_length
       ELSE /\ slides' = slides
            /\ current_slide' = current_slide
            /\ current_content' = Append(current_content, block)
            /\ current_content_length' = current_content_length + block.estimated_length
    /\ UNCHANGED current_chapter_title

\* the subtitle branch: "if True" stands where the page-break check stood,
\* so _should_create_new_slide is not called
OnSubtitle(block) ==
    /\ block.content_type = "subtitle"
    /\ slides' = Append(_finalize_slide(slides, current_slide, current_content),
                        _create_content_slide(ContinuationBlock(current_chapter_title)))
    /\ current_slide' = Len(slides) + 1
    /\ current_content' = << block >>
    /\ current_content_length' = block.estimated_length
    /\ UNCHANGED << current_chapter_title, arg >>

\* the else branch; arg records the call of _should_create_new_slide
OnContent(block) ==
    /\ block.content_type \notin {"header", "chapter", "subtitle"}
    /\ arg' = << current_content, current_content_length, block >>
    /\ LET brk == _should_create_new_slide(current_content, current_content_length, block)
           slides1 == IF brk
                      THEN Append(_finalize_slide(slides, current_slide, current_content),
                                  _create_content_slide(ContinuationBlock(current_chapter_title)))
                      ELSE slides
           slide1 == IF brk THEN Len(slides) + 1 ELSE current_slide
           content1 == IF brk THEN << >> ELSE current_content
           length1 == IF brk THEN 0 ELSE current_content_length
       IN  /\ slides' = IF slide1 = 0 THEN Append(slides1, _create_content_slide(block))
                        ELSE slides1
           /\ current_slide' = IF slide1 = 0 THEN Len(slides1) + 1 ELSE slide1
           /\ current_content' = Append(content1, block)
           /\ current_content_length' = length1 + block.estimated_length
    /\ UNCHANGED current_chapter_title

\* whether the iteration for block calls _create_title_slide or
\* _create_content_slide, and the layout kind it asks for
OpensSlide(block) ==
    \/ block.content_type \in {"header", "chapter", "subtitle"}
    \/ _should_create_new_slide(current_content, current_content_length, block)
    \/ current_slide = 0

LayoutKind(block) == IF block.content_type = "header" THEN "title" ELSE "content"

LayoutFound(block) ==
    OpensSlide(block) => _get_best_layout(slide_layouts, LayoutKind(block)) # 0

\* one iteration of "for block in blocks"
ProcessBlock(block) ==
    /\ LayoutFound(block)
    /\ \/ OnHeader(block)
       \/ OnChapter(block)
       \/ OnSubtitle(block)
       \/ OnContent(block)
    /\ idx' = idx + 1
    /\ pc' = pc
    /\ UNCHANGED << paragraphs, ret, envVars, exc >>

\* an iteration whose _get_best_layout raises: create_slides ends with the
\* exception (no slide can be open then, so nothing was finalized before)
LayoutError(block) ==
    /\ ~LayoutFound(block)
    /\ pc' = "raised"
    /\ exc' = "IndexError"
    /\ UNCHANGED << paragraphs, idx, mapperVars, arg, ret, envVars >>

LoopStep ==
    /\ pc = "loop"
    /\ idx <= Len(blocks)
    /\ ProcessBlock(blocks[idx])
    /\ UNCHANGED blocks

\* the iteration that ends create_slides with an exception
LoopError ==
    /\ pc = "loop"
    /\ idx <= Len(blocks)
    /\ LayoutError(blocks[idx])
    /\ UNCHANGED blocks

\* create_slides returning without finalizing the open slide
CreateSlidesEnd_no_flush ==
    /\ pc = "loop"
    /\ idx > Len(blocks)
    /\ pc' = "done"
    /\ UNCHANGED << paragraphs, blocks, idx, mapperVars, arg, ret, envVars, exc >>

\* after the loop: the open slide is finalized and the presentation returned
CreateSlidesEnd ==
    /\ pc = "loop"
    /\ idx > Len(blocks)
    /\ slides' = _finalize_slide(slides, current_slide, current_content)
    /\ pc' = "done"
    /\ UNCHANGED << paragraphs, blocks, idx, current_slide, current_content,
                    current_chapter_title, current_content_length, arg, ret,
                    envVars, exc >>

Next ==
    \/ AnalyzeDocument
    \/ CreateSlidesBegin
    \/ ClearSlide
    \/ ClearSlidesDone
    \/ LoopStep
    \/ CreateSlidesEnd

Spec == Init /\ [][Next]_vars

(***************************************************************************)
(* create_slides called with any block list: the list is supplied one     *)
(* block at a time and may end after any block.                            *)
(***************************************************************************)
InitMapper ==
    /\ pc = "create_slides"
    /\ paragraphs = << >>
    /\ Idle
    /\ Env(StandardTemplate, DefaultOptions)
    /\ arg = << >>
    /\ ret = << >>

FeedStep ==
    /\ pc = "loop"
    /\ idx = Len(blocks) + 1
    /\ Len(blocks) < MaxBlocks
    /\ \E b \in BlockPool :
          /\ blocks' = Append(blocks, b)
          /\ ProcessBlock(b)

NextMapper ==
    \/ CreateSlidesBegin
    \/ ClearSlide
    \/ ClearSlidesDone
    \/ FeedStep
    \/ CreateSlidesEnd

SpecMapper == InitMapper /\ [][NextMapper]_vars

(***************************************************************************)
(* convert: analysis, mapping, saving, preview, and its except clause.    *)
(***************************************************************************)
convertFrame ==
    << paragraphs, blocks, idx, mapperVars, arg, template, slide_layouts, opts, other, ui >>

\* analyze_document raising: the document cannot be loaded or read
AnalyzeError ==
    /\ pc = "analyze_document"
    /\ ~opts.document_ok
    /\ pc' = "raised"
    /\ exc' = "Exception"
    /\ UNCHANGED << convertFrame, ret, fs, result >>

\* "if not blocks: return ConversionResult(success=False, ...)"
ReturnNoContent ==
    /\ pc = "no_content"
    /\ result' = ConversionResult(FALSE, "", << >>, << "no content found" >>, 0)
    /\ pc' = "returned"
    /\ UNCHANGED << convertFrame, ret, fs, exc >>

\* step 3: the presentation is written to output_path when one is given
SavePresentation ==
    /\ pc = "done"
    /\ fs' = IF opts.output_path # "" THEN [fs EXCEPT !.output = TRUE] ELSE fs
    /\ pc' = "preview"
    /\ UNCHANGED << convertFrame, ret, result, exc >>

\* step 3 raising: os.makedirs or presentation.save fails
SaveError ==
    /\ pc = "done"
    /\ opts.output_path # ""
    /\ pc' = "raised"
    /\ exc' = "PermissionError"
    /\ UNCHANGED << convertFrame, ret, fs, result >>

\* step 4 skipped: generate_preview is False
SkipPreview ==
    /\ pc = "preview"
    /\ ~opts.generate_preview
    /\ ret' = << >>
    /\ pc' = "return"
    /\ UNCHANGED << convertFrame, fs, result, exc >>

\* step 4 raising outside export_slides_to_images: PPTXImageExporter(...)
\* (SystemFontManager, os.makedirs), tempfile.mkdtemp or the save of the
\* temporary presentation fails
PreviewSetupError ==
    /\ pc = "preview"
    /\ opts.generate_preview
    /\ pc' = "raised"
    /\ exc' = "OSError"
    /\ UNCHANGED << convertFrame, ret, fs, result >>

\* the image paths export_slides_to_images returns for n rendered slides
ImagePaths(n) == [i \in 1..n |-> i]

\* export_slides_to_images: every slide rendered into the preview
\* directory, or an exception inside it swallowed into []
ExportSlides ==
    /\ pc = "preview"
    /\ opts.generate_preview
    /\ \E n \in {0, Len(slides)} :
          /\ ret' = ImagePaths(n)
          /\ fs' = [fs EXCEPT !.images = 1..n]
    /\ pc' = "cleanup"
    /\ UNCHANGED << convertFrame, result, exc >>

\* whether the clean-up after the export reaches exporter.cleanup
MemoryMode == ~opts.save_preview_to_disk

\* after the export: the temporary presentation is removed; in memory mode
\* exporter.cleanup(force_delete=True) then removes the preview directory,
\* unless a removal raised before it (bare except) or rmtree itself failed
CleanupPreview ==
    /\ pc = "cleanup"
    /\ IF MemoryMode
       THEN fs' \in { [fs EXCEPT !.images = {}], fs }
       ELSE fs' = fs
    /\ pc' = "return"
    /\ UNCHANGED << convertFrame, ret, result, exc >>

\* "return ConversionResult(success=True, ...)"
ReturnSuccess ==
    /\ pc = "return"
    /\ result' = ConversionResult(TRUE, opts.output_path, ret, << >>, Len(slides))
    /\ pc' = "returned"
    /\ UNCHANGED << convertFrame, ret, fs, exc >>

\* f"{str(e)}\n\n...:\n{traceback.format_exc()}"
ErrorDetails(e) == << e, "traceback" >>

\* the except clause letting the exception through
ConvertExcept_reraises ==
    /\ pc = "raised"
    /\ pc' = "returned"
    /\ UNCHANGED << convertFrame, ret, fs, result, exc >>

\* "except Exception as e: return ConversionResult(success=False, ...)"
ConvertExcept ==
    /\ pc = "raised"
    /\ result' = ConversionResult(FALSE, "", << >>, ErrorDetails(exc), 0)
    /\ exc' = ""
    /\ pc' = "returned"
    /\ UNCHANGED << convertFrame, ret, fs >>

\* the templates convert is tried with: the usual one, one that cannot be
\* loaded, one without layouts
ConvertTemplates ==
    { StandardTemplate, Template(FALSE, StandardLayouts, 1), Template(TRUE, << >>, 0) }

ConvertOptions ==
    { Options(d, o, g, s) :
        d \in BOOLEAN, o \in {"", "out.pptx"}, g \in BOOLEAN, s \in BOOLEAN }

InitConvert ==
    /\ pc = "analyze_document"
    /\ paragraphs \in SeqsUpTo(ParagraphPool, MaxConvertParas)
    /\ Idle
    /\ \E t \in ConvertTemplates, o \in ConvertOptions : Env(t, o)
    /\ arg = << >>
    /\ ret = << >>

NextConvert ==
    \/ AnalyzeDocument
    \/ AnalyzeError
    \/ ReturnNoContent
    \/ CreateSlidesBegin
    \/ TemplateLoadError
    \/ ClearSlide
    \/ ClearSlidesDone
    \/ LoopStep
    \/ LoopError
    \/ CreateSlidesEnd
    \/ SavePresentation
    \/ SaveError
    \/ SkipPreview
    \/ PreviewSetupError
    \/ ExportSlides
    \/ CleanupPreview
    \/ ReturnSuccess
    \/ ConvertExcept

SpecConvert == InitConvert /\ [][NextConvert]_vars

(***************************************************************************)
(* Conversions one after the other: analyze_document + create_slides on a *)
(* document, then on another one or on the same again.  Nothing of the    *)
(* call before is reset between two calls: whatever a call reads it has   *)
(* to write first.                                                         *)
(***************************************************************************)
\* documents converted in between
EarlierDocuments ==
    { << Paragraph(<< "yi", "dun", "qian", "yan" >>, FALSE), Paragraph(<< "nei" >>, FALSE) >>,
      << Paragraph(<< "nei" >>, FALSE), Paragraph(<< "(", "1", ")", "nei" >>, FALSE),
         Paragraph(<< "nei", "nei" >>, FALSE) >> }

\* what a call came to: "done" with the slides, or "no_content"
Outcome == [document |-> paragraphs, ended |-> pc,
            slides |-> IF pc = "done" THEN slides ELSE << >>]

InitTwice ==
    /\ pc = "analyze_document"
    /\ paragraphs \in SeqsUpTo(ParagraphPool, MaxConvertParas)
    /\ Idle
    /\ Env(StandardTemplate, DefaultOptions)
    /\ arg = << >>
    /\ ret = << >>

\* the next call: perform_conversion calls convert a second time with the
\* same contents; ret keeps the outcomes of the calls so far
Rerun ==
    /\ pc \in {"done", "no_content"}
    /\ Len(ret) < MaxRuns - 1
    /\ ret' = Append(ret, Outcome)
    /\ paragraphs' \in EarlierDocuments \cup {paragraphs} \cup { ret[i].document : i \in 1..Len(ret) }
    /\ pc' = "analyze_document"
    /\ UNCHANGED << blocks, idx, mapperVars, arg, envVars, exc >>

NextTwice ==
    \/ AnalyzeDocument
    \/ CreateSlidesBegin
    \/ ClearSlide
    \/ ClearSlidesDone
    \/ LoopStep
    \/ CreateSlidesEnd
    \/ Rerun

SpecTwice == InitTwice /\ [][NextTwice]_vars

(***************************************************************************)
(* Two conversions at once.  A document is first converted alone; then    *)
(* two threads (ConversionWorker.run: a new WordToPPTXConverter each)     *)
(* convert, one that document and one another, interleaved at any step.   *)
(* The variables hold the frame of the running thread, other the frame    *)
(* of the suspended one.                                                   *)
(***************************************************************************)
InitConcurrent ==
    /\ pc = "analyze_document"
    /\ paragraphs \in SeqsUpTo(ParagraphPool, MaxConvertParas)
    /\ Idle
    /\ Env(StandardTemplate, DefaultOptions)
    /\ arg = << >>
    /\ ret = << >>

\* the frame of the running thread
Running ==
    Frame(IF other.tid = 1 THEN 2 ELSE 1, other.switches, pc, paragraphs, blocks, idx,
          slides, slide_layouts, current_slide, current_content,
          current_chapter_title, current_content_length)

\* two workers are started: thread 1 on the document converted alone
\* before (its outcome is kept in ret), thread 2 on another document
StartWorkers ==
    /\ pc \in {"done", "no_content"}
    /\ other = NoThread
    /\ ret = << >>
    /\ ret' = << Outcome >>
    /\ pc' = "analyze_document"
    /\ blocks' = << >>
    /\ idx' = 1
    /\ slides' = << >>
    /\ slide_layouts' = << >>
    /\ current_slide' = 0
    /\ current_content' = << >>
    /\ current_chapter_title' = << >>
    /\ current_content_length' = 0
    /\ \E d \in EarlierDocuments : other' = NewThread(2, d)
    /\ UNCHANGED << paragraphs, arg, template, opts, fs, result, exc, ui >>

\* a context switch with the accumulator left where it is, as if the two
\* threads appended to one list
Switch_shared_accumulator ==
    /\ other.tid # 0
    /\ other.pc \notin {"done", "no_content"}
    /\ other.switches < MaxSwitches
    /\ other' = [Running EXCEPT !.switches = @ + 1]
    /\ pc' = other.pc
    /\ paragraphs' = other.paragraphs
    /\ blocks' = other.blocks
    /\ idx' = other.idx
    /\ slides' = other.slides
    /\ slide_layouts' = other.slide_layouts
    /\ current_slide' = other.current_slide
    /\ current_content' = current_content
    /\ current_chapter_title' = other.current_chapter_title
    /\ current_content_length' = other.current_content_length
    /\ UNCHANGED << arg, ret, template, opts, fs, result, exc, ui >>

\* a context switch: the running thread is suspended where it is and the
\* other one goes on from where it was
Switch ==
    /\ other.tid # 0
    /\ other.pc \notin {"done", "no_content"}
    /\ other.switches < MaxSwitches
    /\ other' = [Running EXCEPT !.switches = @ + 1]
    /\ pc' = other.pc
    /\ paragraphs' = other.paragraphs
    /\ blocks' = other.blocks
    /\ idx' = other.idx
    /\ slides' = other.slides
    /\ slide_layouts' = other.slide_layouts
    /\ current_slide' = other.current_slide
    /\ current_content' = other.current_content
    /\ current_chapter_title' = other.current_chapter_title
    /\ current_content_length' = other.current_content_length
    /\ UNCHANGED << arg, ret, template, opts, fs, result, exc, ui >>

NextConcurrent ==
    \/ AnalyzeDocument
    \/ CreateSlidesBegin
    \/ ClearSlide
    \/ ClearSlidesDone
    \/ LoopStep
    \/ CreateSlidesEnd
    \/ StartWorkers
    \/ Switch

SpecConcurrent == InitConcurrent /\ [][NextConcurrent]_vars

(***************************************************************************)
(* create_slides called with any block list on any template.              *)
(***************************************************************************)
InitTemplate ==
    /\ pc = "create_slides"
    /\ paragraphs = << >>
    /\ blocks \in SeqsUpTo(BlockPool, MaxTemplateBlocks)
    /\ idx = 1
    /\ slides = << >>
    /\ slide_layouts = << >>
    /\ current_slide = 0
    /\ current_content = << >>
    /\ current_chapter_title = << >>
    /\ current_content_length = 0
    /\ \E t \in TemplatePool : Env(t, DefaultOptions)
    /\ arg = << >>
    /\ ret = << >>

NextTemplate ==
    \/ CreateSlidesBegin
    \/ TemplateLoadError
    \/ ClearSlide
    \/ ClearSlidesDone
    \/ LoopStep
    \/ LoopError
    \/ CreateSlidesEnd

SpecTemplate == InitTemplate /\ [][NextTemplate]_vars

(***************************************************************************)
(* The helpers called on their own.                                        *)
(***************************************************************************)
InitClassify ==
    /\ pc = "_classify_content"
    /\ arg \in Texts(ClassifyAlphabet, MaxTextLen)
    /\ ret = << >>
    /\ paragraphs = << >>
    /\ Idle
    /\ Env(StandardTemplate, DefaultOptions)

ClassifyCall ==
    /\ pc = "_classify_content"
    /\ ret' = _classify_content(arg)
    /\ pc' = "returned"
    /\ UNCHANGED << paragraphs, blocks, idx, mapperVars, arg, envVars, exc >>

SpecClassify == InitClassify /\ [][ClassifyCall]_vars

\* a cleaner applied to a text, then to its own result
InitClean ==
    /\ pc \in {"_clean_chapter_text", "_clean_subtitle_text"}
    /\ arg \in Texts(CleanAlphabet, MaxTextLen)
    /\ ret = << >>
    /\ paragraphs = << >>
    /\ Idle
    /\ Env(StandardTemplate, DefaultOptions)

CleanInput == IF ret = << >> THEN arg ELSE ret[Len(ret)]

CleanChapterCall ==
    /\ pc = "_clean_chapter_text"
    /\ Len(ret) < 2
    /\ ret' = Append(ret, _clean_chapter_text(CleanInput))
    /\ UNCHANGED << pc, paragraphs, blocks, idx, mapperVars, arg, envVars, exc >>

CleanSubtitleCall ==
    /\ pc = "_clean_subtitle_text"
    /\ Len(ret) < 2
    /\ ret' = Append(ret, _clean_subtitle_text(CleanInput))
    /\ UNCHANGED << pc, paragraphs, blocks, idx, mapperVars, arg, envVars, exc >>

NextClean == CleanChapterCall \/ CleanSubtitleCall

SpecClean == InitClean /\ [][NextClean]_vars

\* a cleaner's pattern list with the patterns at i and j exchanged
Swapped(patterns, i, j) ==
    [k \in 1..Len(patterns) |->
        IF k = i THEN patterns[j] ELSE IF k = j THEN patterns[i] ELSE patterns[k]]

\* the loop and the strip() of a cleaner run over a reordered pattern list;
\* ret receives the result of the code's order and that of the other order
CleanChapterReordered ==
    /\ pc = "_clean_chapter_text"
    /\ ret = << >>
    /\ \E i, j \in 1..Len(chapter_clean_patterns) :
          /\ i < j
          /\ ret' = << _clean_chapter_text(arg),
                       strip(SubAll(Swapped(chapter_clean_patterns, i, j), 1, arg)) >>
    /\ UNCHANGED << pc, paragraphs, blocks, idx, mapperVars, arg, envVars, exc >>

CleanSubtitleReordered ==
    /\ pc = "_clean_subtitle_text"
    /\ ret = << >>
    /\ \E i, j \in 1..Len(subtitle_clean_patterns) :
          /\ i < j
          /\ ret' = << _clean_subtitle_text(arg),
                       strip(SubAll(Swapped(subtitle_clean_patterns, i, j), 1, arg)) >>
    /\ UNCHANGED << pc, paragraphs, blocks, idx, mapperVars, arg, envVars, exc >>

NextCleanOrder == CleanChapterReordered \/ CleanSubtitleReordered

SpecCleanOrder == InitClean /\ [][NextCleanOrder]_vars

InitRepair ==
    /\ pc = "_optimize_structure"
    /\ arg \in SeqsUpTo(RepairPool, MaxRepairBlocks)
    /\ ret = << >>
    /\ paragraphs = << >>
    /\ Idle
    /\ Env(StandardTemplate, DefaultOptions)

RepairCall ==
    /\ pc = "_optimize_structure"
    /\ ret' = _optimize_structure(arg)
    /\ pc' = "returned"
    /\ UNCHANGED << paragraphs, blocks, idx, mapperVars, arg, envVars, exc >>

SpecRepair == InitRepair /\ [][RepairCall]_vars

(***************************************************************************)
(* The Streamlit front end: main draws the settings, the button starts     *)
(* perform_conversion, which calls convert twice (preview, then the file   *)
(* offered for download).                                                  *)
(***************************************************************************)
\* what render_conversion_settings returns, the number of convert calls
\* made so far and st.session_state.conversion_result
StreamlitPage(generate_preview, save_preview_to_disk, length, items) ==
    [app |-> "streamlit", generate_preview |-> generate_preview,
     save_preview_to_disk |-> save_preview_to_disk,
     max_content_length |-> length, max_content_items |-> items,
     calls |-> 0, conversion_result |-> NoResult]

\* the sliders as drawn (value=220, value=4), the item slider at its
\* min_value, the length slider at its min_value
SliderSettings == { << 220, 4 >>, << 220, 2 >>, << 100, 4 >> }

\* paragraphs of the uploaded document: a plain line, a chapter heading, an
\* enumerated sub-heading, a blank paragraph
UploadPool ==
    { Paragraph(<< "nei" >>, FALSE),
      Paragraph(<< "yi", "dun", "qian", "yan" >>, FALSE),
      Paragraph(<< "(", "1", ")", "nei" >>, FALSE),
      Paragraph(<< >>, FALSE) }

\* main has drawn the page with both files uploaded; the button is not
\* pressed yet
InitStreamlit ==
    /\ pc = "main"
    /\ paragraphs \in SeqsUpTo(UploadPool, MaxUploadParas)
    /\ Idle
    /\ template = StandardTemplate
    /\ opts = DefaultOptions
    /\ fs = NoFiles
    /\ result = NoResult
    /\ exc = ""
    /\ other = NoThread
    /\ \E g \in BOOLEAN, v \in SliderSettings :
          ui = StreamlitPage(g, FALSE, v[1], v[2])
    /\ arg = << >>
    /\ ret = << >>

\* main: the button is pressed; perform_conversion(output_filename,
\* generate_preview) builds a converter and makes the first call of convert
PerformConversion ==
    /\ pc = "main"
    /\ opts' = Options(TRUE, "",
                       ui.generate_preview,
                       IF ui.generate_preview THEN ui.save_preview_to_disk ELSE FALSE)
    /\ ui' = [ui EXCEPT !.calls = 1]
    /\ pc' = "analyze_document"
    /\ UNCHANGED << paragraphs, blocks, idx, mapperVars, arg, ret, template,
                    slide_layouts, fs, result, exc, other >>

\* "if result.success": the result is kept in the session and convert is
\* called again with an output path and without preview
DownloadConversion ==
    /\ pc = "returned"
    /\ ui.app = "streamlit"
    /\ ui.calls = 1
    /\ result.success
    /\ ui' = [ui EXCEPT !.calls = 2, !.conversion_result = result]
    /\ opts' = Options(TRUE, "presentation.pptx", FALSE, TRUE)
    /\ result' = NoResult
    /\ pc' = "analyze_document"
    /\ UNCHANGED << paragraphs, blocks, idx, mapperVars, arg, ret, template,
                    slide_layouts, fs, exc, other >>

\* perform_conversion is over: the first call failed, or the second returned
PerformConversionEnd ==
    /\ pc = "returned"
    /\ ui.app = "streamlit"
    /\ ui.calls = 2 \/ ~result.success
    /\ pc' = "main_done"
    /\ UNCHANGED << convertFrame, ret, fs, result, exc >>

NextStreamlit ==
    \/ PerformConversion
    \/ AnalyzeDocument
    \/ ReturnNoContent
    \/ CreateSlidesBegin
    \/ ClearSlide
    \/ ClearSlidesDone
    \/ LoopStep
    \/ CreateSlidesEnd
    \/ SavePresentation
    \/ SaveError
    \/ SkipPreview
    \/ PreviewSetupError
    \/ ExportSlides
    \/ CleanupPreview
    \/ ReturnSuccess
    \/ ConvertExcept
    \/ DownloadConversion
    \/ PerformConversionEnd

SpecStreamlit == InitStreamlit /\ [][NextStreamlit]_vars

(***************************************************************************)
(* ConversionWorker.run, the thread of the desktop front ends.  The       *)
(* standalone application's worker calls convert; the universal           *)
(* application's worker calls analyze_document, create_slides and save    *)
(* itself.  ui.signals is the list of the signals emitted so far.         *)
(***************************************************************************)
Signal(name, value) == [name |-> name, value |-> value]

\* a worker constructed by start_conversion and started; template_exists is
\* what os.path.exists(self.template_path) will answer
ConversionWorker(app, template_exists) ==
    [app |-> app, template_exists |-> template_exists, signals |-> << >>]

\* what neither run nor a call it makes writes, the signals apart
workerFrame ==
    << paragraphs, blocks, idx, mapperVars, arg, ret, template, slide_layouts,
       opts, other >>

InitWorker ==
    /\ pc = "run"
    /\ paragraphs \in SeqsUpTo(ParagraphPool, MaxConvertParas)
    /\ Idle
    /\ template \in ConvertTemplates
    /\ fs = NoFiles
    /\ result = NoResult
    /\ exc = ""
    /\ other = NoThread
    /\ \E d \in BOOLEAN, b \in BOOLEAN :
          \/ /\ ui = ConversionWorker("standalone", TRUE)
             /\ opts = Options(d, "out.pptx", TRUE, b)
          \/ /\ ui = ConversionWorker("universal", b)
             /\ opts = Options(d, "out.pptx", FALSE, FALSE)
    /\ arg = << >>
    /\ ret = << >>

\* standalone run up to the call of convert
WorkerRun ==
    /\ pc = "run"
    /\ ui.app = "standalone"
    /\ ui' = [ui EXCEPT !.signals = @ \o
                << Signal("status_updated", "initializing"),
                   Signal("progress_updated", 10),
                   Signal("status_updated", "converting"),
                   Signal("progress_updated", 50) >>]
    /\ pc' = "analyze_document"
    /\ UNCHANGED << workerFrame, fs, result, exc >>

\* the steps of convert that share their position with a step of the
\* universal worker
WorkerSavePresentation == ui.app = "standalone" /\ SavePresentation

WorkerSaveError == ui.app = "standalone" /\ SaveError

WorkerConvertExcept == ui.app = "standalone" /\ ConvertExcept

\* standalone run after convert: a failed result announced as finished
WorkerReturn_unconditional ==
    /\ pc = "returned"
    /\ ui.app = "standalone"
    /\ ui' = [ui EXCEPT !.signals = @ \o
                << Signal("progress_updated", 100),
                   Signal("status_updated", "done"),
                   Signal("finished_successfully", result) >>]
    /\ pc' = "finished"
    /\ UNCHANGED << workerFrame, fs, result, exc >>

\* standalone run after convert has returned: "if result.success: ... else"
WorkerReturn ==
    /\ pc = "returned"
    /\ ui.app = "standalone"
    /\ ui' = [ui EXCEPT !.signals = @ \o
                << Signal("progress_updated", 100) >> \o
                (IF result.success
                 THEN << Signal("status_updated", "done"),
                         Signal("finished_successfully", result) >>
                 ELSE << Signal("error_occurred", result.error_message) >>)]
    /\ pc' = "finished"
    /\ UNCHANGED << workerFrame, fs, result, exc >>

\* universal run up to the call of analyze_document
UniversalRun ==
    /\ pc = "run"
    /\ ui.app = "universal"
    /\ ui' = [ui EXCEPT !.signals = @ \o
                << Signal("status_updated", "analyzing"),
                   Signal("progress_updated", 10) >>]
    /\ pc' = "universal_analyze"
    /\ UNCHANGED << workerFrame, fs, result, exc >>

\* step 1 of the universal run: analyze_document, "if not blocks: raise",
\* then the signals of step 2
UniversalAnalyze ==
    /\ pc = "universal_analyze"
    /\ opts.document_ok
    /\ blocks' = analyze_document(paragraphs)
    /\ IF blocks' = << >>
       THEN /\ exc' = "Exception"
            /\ pc' = "worker_raised"
            /\ ui' = ui
       ELSE /\ exc' = exc
            /\ pc' = "universal_template"
            /\ ui' = [ui EXCEPT !.signals = @ \o
                        << Signal("status_updated", "checking"),
                           Signal("progress_updated", 20) >>]
    /\ UNCHANGED << paragraphs, idx, mapperVars, arg, ret, template,
                    slide_layouts, opts, other, fs, result >>

\* analyze_document raising in the universal run
UniversalAnalyzeError ==
    /\ pc = "universal_analyze"
    /\ ~opts.document_ok
    /\ exc' = "Exception"
    /\ pc' = "worker_raised"
    /\ UNCHANGED << workerFrame, fs, result, ui >>

\* step 2: "if not os.path.exists(self.template_path): raise"
UniversalTemplateMissing ==
    /\ pc = "universal_template"
    /\ ~ui.template_exists
    /\ exc' = "Exception"
    /\ pc' = "worker_raised"
    /\ UNCHANGED << workerFrame, fs, result, ui >>

\* step 3 up to the call of create_slides
UniversalCreateSlides ==
    /\ pc = "universal_template"
    /\ ui.template_exists
    /\ ui' = [ui EXCEPT !.signals = @ \o
                << Signal("status_updated", "creating"),
                   Signal("progress_updated", 50) >>]
    /\ pc' = "create_slides"
    /\ UNCHANGED << workerFrame, fs, result, exc >>

\* step 4 and the end of the universal run: the presentation is saved
UniversalSave ==
    /\ pc = "done"
    /\ ui.app = "universal"
    /\ fs' = [fs EXCEPT !.output = TRUE]
    /\ ui' = [ui EXCEPT !.signals = @ \o
                << Signal("status_updated", "saving"),
                   Signal("progress_updated", 80),
                   Signal("progress_updated", 100),
                   Signal("status_updated", "done"),
                   Signal("finished_successfully", opts.output_path) >>]
    /\ pc' = "finished"
    /\ UNCHANGED << workerFrame, result, exc >>

\* step 4 raising: os.makedirs or presentation.save fails
UniversalSaveError ==
    /\ pc = "done"
    /\ ui.app = "universal"
    /\ ui' = [ui EXCEPT !.signals = @ \o
                << Signal("status_updated", "saving"),
                   Signal("progress_updated", 80) >>]
    /\ exc' = "PermissionError"
    /\ pc' = "worker_raised"
    /\ UNCHANGED << workerFrame, fs, result >>

\* "except Exception as e: ... self.error_occurred.emit(error_details)":
\* an exception raised in run, or one create_slides let through
WorkerExcept ==
    /\ \/ pc = "worker_raised"
       \/ pc = "raised" /\ ui.app = "universal"
    /\ ui' = [ui EXCEPT !.signals = @ \o
                << Signal("error_occurred", ErrorDetails(exc)) >>]
    /\ exc' = ""
    /\ pc' = "finished"
    /\ UNCHANGED << workerFrame, fs, result >>

NextWorker ==
    \/ WorkerRun
    \/ AnalyzeDocument
    \/ AnalyzeError
    \/ ReturnNoContent
    \/ CreateSlidesBegin
    \/ TemplateLoadError
    \/ ClearSlide
    \/ ClearSlidesDone
    \/ LoopStep
    \/ LoopError
    \/ CreateSlidesEnd
    \/ WorkerSavePresentation
    \/ WorkerSaveError
    \/ PreviewSetupError
    \/ ExportSlides
    \/ CleanupPreview
    \/ ReturnSuccess
    \/ WorkerConvertExcept
    \/ WorkerReturn
    \/ UniversalRun
    \/ UniversalAnalyze
    \/ UniversalAnalyzeError
    \/ UniversalTemplateMissing
    \/ UniversalCreateSlides
    \/ UniversalSave
    \/ UniversalSaveError
    \/ WorkerExcept

SpecWorker == InitWorker /\ [][NextWorker]_vars

(***************************************************************************)
(* MainWindow of the standalone application: the handlers of its widgets   *)
(* run on the GUI thread one at a time; a worker started by                *)
(* start_conversion runs beside them, and its terminal signal is queued    *)
(* to the GUI thread, where on_conversion_finished or on_conversion_error  *)
(* handles it.                                                             *)
(***************************************************************************)
\* a file path, by what the handlers read of it: the base name, the
\* extension, and the "_<counter>" auto_set_output_path may insert
Path(name, ext, counter) == [name |-> name, ext |-> ext, counter |-> counter]

\* the empty string
NoPath == Path("", "", 0)

\* str.lower() on an extension
Lower(ext) ==
    CASE ext = ".DOCX" -> ".docx"
      [] ext = ".PPTX" -> ".pptx"
      [] OTHER -> ext

\* files dropped on, or picked in, the two drop areas
DroppedFiles ==
    { Path("a", ".docx", 0), Path("b", ".DOCX", 0), Path("t", ".pptx", 0),
      Path("n", ".txt", 0) }

\* what the save dialog of select_output_path returns: cancelled, a name
\* with the extension, a name without
SaveDialogAnswers == { NoPath, Path("out", ".pptx", 0), Path("out", "", 0) }

\* "ready" of check_ready_to_convert: the three paths are non-blank
Ready(word_path, template_path, output_path) ==
    word_path # NoPath /\ template_path # NoPath /\ output_path # NoPath

\* MainWindow after __init__ and load_last_used_paths have set the paths
MainWindow(word_path, template_path, output_path) ==
    [app |-> "desktop", word_path |-> word_path, template_path |-> template_path,
     output_path |-> output_path,
     convert_btn |-> Ready(word_path, template_path, output_path),
     progress_bar |-> FALSE,
     workers |-> << >>,     \* the state of every ConversionWorker started
     worker |-> 0]          \* self.worker: 0 = None, else index into workers

\* check_ready_to_convert run on the window u
check_ready_to_convert(u) ==
    [u EXCEPT !.convert_btn = Ready(u.word_path, u.template_path, u.output_path)]

\* auto_set_output_path: the .pptx beside the Word file, with a counter
\* when that name is taken
auto_set_output_path(u, word_path, taken) ==
    [u EXCEPT !.output_path =
        Path(word_path.name, ".pptx", IF taken THEN 1 ELSE 0)]

desktopFrame ==
    << pc, paragraphs, blocks, idx, mapperVars, arg, ret, template,
       slide_layouts, opts, fs, result, exc, other >>

\* __init__: last used paths are loaded when the files still exist, then
\* check_ready_to_convert
InitDesktop ==
    /\ pc = "event_loop"
    /\ paragraphs = << >>
    /\ Idle
    /\ template = StandardTemplate
    /\ opts = DefaultOptions
    /\ fs = NoFiles
    /\ result = NoResult
    /\ exc = ""
    /\ other = NoThread
    /\ \E w \in {NoPath, Path("a", ".docx", 0)}, t \in {NoPath, Path("t", ".pptx", 0)} :
          ui = MainWindow(w, t, IF w = NoPath THEN NoPath ELSE Path(w.name, ".pptx", 0))
    /\ arg = << >>
    /\ ret = << >>

\* a file dropped on the Word area
on_word_file_selected ==
    /\ \E file_path \in DroppedFiles, taken \in BOOLEAN :
          IF Lower(file_path.ext) \in {".docx", ".doc"}
          THEN ui' = check_ready_to_convert(
                        auto_set_output_path([ui EXCEPT !.word_path = file_path],
                                             file_path, taken))
          ELSE ui' = ui
    /\ UNCHANGED desktopFrame

\* a file dropped on the template area
on_template_file_selected ==
    /\ \E file_path \in DroppedFiles :
          IF Lower(file_path.ext) \in {".pptx", ".ppt"}
          THEN ui' = check_ready_to_convert([ui EXCEPT !.template_path = file_path])
          ELSE ui' = ui
    /\ UNCHANGED desktopFrame

select_output_path ==
    /\ \E file_path \in SaveDialogAnswers :
          IF file_path # NoPath
          THEN ui' = check_ready_to_convert(
                        [ui EXCEPT !.output_path = Path(file_path.name, ".pptx", 0)])
          ELSE ui' = ui
    /\ UNCHANGED desktopFrame

clear_word_file ==
    /\ ui' = check_ready_to_convert([ui EXCEPT !.word_path = NoPath])
    /\ UNCHANGED desktopFrame

clear_template_file ==
    /\ ui' = check_ready_to_convert([ui EXCEPT !.template_path = NoPath])
    /\ UNCHANGED desktopFrame

\* clear_all_files answered with Yes
clear_all_files ==
    /\ ui' = check_ready_to_convert(
                [ui EXCEPT !.word_path = NoPath, !.template_path = NoPath,
                           !.output_path = NoPath])
    /\ UNCHANGED desktopFrame

\* the convert button clicked (it can be clicked while enabled):
\* start_conversion returns early when a path is missing or a file is gone,
\* else disables the button, builds a worker into self.worker and starts it
start_conversion ==
    /\ ui.convert_btn
    /\ Len(ui.workers) < MaxWorkers
    /\ \E word_exists \in BOOLEAN, template_exists \in BOOLEAN :
          IF /\ Ready(ui.word_path, ui.template_path, ui.output_path)
             /\ word_exists
             /\ template_exists
          THEN ui' = [ui EXCEPT !.convert_btn = FALSE,
                                !.progress_bar = TRUE,
                                !.workers = Append(@, "running"),
                                !.worker = Len(ui.workers) + 1]
          ELSE ui' = ui
    /\ UNCHANGED desktopFrame

\* a running worker reaches the end of run and emits its terminal signal
WorkerEmitsTerminal ==
    /\ \E w \in 1..Len(ui.workers), signal \in {"finished_successfully", "error_occurred"} :
          /\ ui.workers[w] = "running"
          /\ ui' = [ui EXCEPT !.workers[w] = signal]
    /\ UNCHANGED desktopFrame

\* the GUI thread handles finished_successfully of a worker
on_conversion_finished ==
    /\ \E w \in 1..Len(ui.workers) :
          /\ ui.workers[w] = "finished_successfully"
          /\ ui' = check_ready_to_convert(
                      [ui EXCEPT !.progress_bar = FALSE, !.workers[w] = "handled"])
    /\ UNCHANGED desktopFrame

\* the GUI thread handles error_occurred of a worker
on_conversion_error ==
    /\ \E w \in 1..Len(ui.workers) :
          /\ ui.workers[w] = "error_occurred"
          /\ ui' = check_ready_to_convert(
                      [ui EXCEPT !.progress_bar = FALSE, !.workers[w] = "handled"])
    /\ UNCHANGED desktopFrame

NextDesktop ==
    \/ on_word_file_selected
    \/ on_template_file_selected
    \/ select_output_path
    \/ clear_word_file
    \/ clear_template_file
    \/ clear_all_files
    \/ start_conversion
    \/ WorkerEmitsTerminal
    \/ on_conversion_finished
    \/ on_conversion_error

SpecDesktop == InitDesktop /\ [][NextDesktop]_vars

(***************************************************************************)
(* Properties.                                                             *)
(***************************************************************************)
RECURSIVE SumLength(_)
SumLength(content) ==
    IF content = << >> THEN 0
    ELSE Head(content).estimated_length + SumLength(Tail(content))

\* the blocks accumulated on slide k: the accumulator while the slide is
\* open, what _finalize_slide was given afterwards
SlideBlocks(k) ==
    IF pc = "loop" /\ k = current_slide THEN current_content ELSE slides[k].content

\* the block taken by the loop iteration that a step performs
IsIteration == pc = "loop" /\ idx' = idx + 1
IterBlock == blocks'[idx]

TitleParagraph == Paragraph(<< "nei" >>, FALSE)
ChapterParagraph == Paragraph(<< "yi", "dun", "qian", "yan" >>, FALSE)
BodyParagraph == Paragraph(<< "nei", "nei" >>, FALSE)

HeaderBlock == ContentBlock(<< "yi", "dun", "nei" >>, 0, "header", FALSE, 6)
ChapterBlock == ContentBlock(<< "yi", "dun", "qian", "yan" >>, 0, "chapter", FALSE, 8)
SubtitleBlock == ContentBlock(<< "(", "1", ")", "nei" >>, 1, "subtitle", FALSE, 5)
ShortBlock == ContentBlock(<< "nei" >>, 2, "content", FALSE, 10)
HalfBlock == ContentBlock(<< "nei", "A" >>, 2, "content", FALSE, 120)
OversizedBlock == ContentBlock(<< "nei", "B" >>, 2, "content", FALSE, 300)

\* C1: whenever analyze_document returns a non-empty block list, its first
\* block has content_type 'header'; no later step of the analysis, the
\* structural repair included, reassigns the tag of the first paragraph.
C1_FirstBlockIsHeader ==
    (pc \in {"create_slides", "loop", "done"} /\ paragraphs # << >>)
        => blocks[1].content_type = "header"

\* C2: on every slide the estimated lengths of the accumulated blocks sum to
\* at most max_content_length, unless the slide holds exactly one block that
\* is itself longer; and a body block for which the page-break decision is
\* true starts the next slide instead of joining the slide it overflowed.
LengthLaw(content) ==
    \/ SumLength(content) <= max_content_length
    \/ Len(content) = 1 /\ content[1].estimated_length > max_content_length

C2_LengthLaw ==
    /\ [](\A k \in 1..Len(slides) : LengthLaw(SlideBlocks(k)))
    /\ [][(/\ IsIteration
           /\ IterBlock.content_type = "content"
           /\ _should_create_new_slide(current_content, current_content_length, IterBlock))
          => (/\ current_slide' = Len(slides) + 1
              /\ Len(slides') = Len(slides) + 1
              /\ current_content' = << IterBlock >>
              /\ current_slide # 0 => slides'[current_slide].content = current_content)]_vars

\* a finished deck where a slide with room for more items was closed because
\* the next body block would have pushed it over the length budget
C2_Witness ==
    /\ pc = "done"
    /\ \E k \in 1..(Len(slides) - 1) :
          /\ Len(slides[k].content) \in 1..(max_content_items - 1)
          /\ SumLength(slides[k].content) <= max_content_length
          /\ slides[k + 1].content # << >>
          /\ slides[k + 1].content[1].content_type = "content"
          /\ slides[k + 1].content[1].estimated_length <= max_content_length
          /\ SumLength(slides[k].content) + slides[k + 1].content[1].estimated_length
                > max_content_length

\* C3: no slide accumulates more than max_content_items body blocks, the
\* subtitle block that starts a slide counted as one of them.
C3_ItemCountLaw ==
    \A k \in 1..Len(slides) : Len(SlideBlocks(k)) <= max_content_items

\* a finished deck with a full slide that starts with a subtitle and is
\* followed by the slide its fifth block was moved to
C3_Witness ==
    /\ pc = "done"
    /\ \E k \in 1..(Len(slides) - 1) :
          /\ Len(slides[k].content) = max_content_items
          /\ slides[k].content[1].content_type = "subtitle"
          /\ slides[k + 1].content # << >>
          /\ slides[k + 1].content[1].content_type = "content"

\* C4: the document [H, 'n、T', c] is classified [header, chapter, content]
\* and gives exactly 2 slides: a title slide titled H and a content slide
\* titled T (the chapter text without its enumeration marker) with the one
\* body line c.
C4_ScenarioA ==
    (pc = "done" /\ paragraphs = << TitleParagraph, ChapterParagraph, BodyParagraph >>)
        => /\ [i \in 1..Len(blocks) |-> blocks[i].content_type]
                = << "header", "chapter", "content" >>
           /\ Len(slides) = 2
           /\ slides[1].layout = "title"
           /\ slides[1].title = << "nei" >>
           /\ slides[2].layout = "content"
           /\ slides[2].title = << "qian", "yan" >>
           /\ slides[2].body = << << "nei", "nei" >> >>

\* C5: a content block that arrives while the accumulator of the open slide
\* is empty never triggers a page break (no slide is left empty in front of
\* a slide that a content block opened); a chapter followed by one content
\* block of length 300 gives exactly 1 slide, holding only that block.
C5_ScenarioC ==
    /\ \A k \in 1..(Len(slides) - 1) :
          ~ (/\ SlideBlocks(k) = << >>
             /\ SlideBlocks(k + 1) # << >>
             /\ SlideBlocks(k + 1)[1].content_type = "content")
    /\ (pc = "done" /\ blocks = << ChapterBlock, OversizedBlock >>)
          => /\ Len(slides) = 1
             /\ slides[1].content = << OversizedBlock >>

\* C6: a chapter (with a text the classifier recognises as a chapter)
\* followed by n >= 1 content blocks, every run of max_content_items of them
\* within max_content_length, gives ceil(n/4) slides: the first titled with
\* the chapter text, the later ones with the chapter text followed by
\* ' (續)'; every slide but the last holds 4 blocks, the last the remainder.
GroupOf(bs, g) ==
    SubSeq(bs, 2 + max_content_items * (g - 1),
           IF 1 + max_content_items * g <= Len(bs) THEN 1 + max_content_items * g ELSE Len(bs))

IsScenarioB(bs) ==
    /\ Len(bs) >= 2
    /\ bs[1].content_type = "chapter"
    /\ _classify_content(bs[1].text) = << 0, "chapter" >>
    /\ \A i \in 2..Len(bs) : bs[i].content_type = "content"
    /\ \A g \in 1..((Len(bs) + 2) \div max_content_items) :
          SumLength(GroupOf(bs, g)) <= max_content_length

C8_CleaningIdempotent ==
    Len(ret) = 2 => ret[2] = ret[1]

\* C9: for a block list without a chapter, the repair turns exactly one block
\* into a level-0 chapter, the first one with level <= 1 or bold formatting,
\* and leaves every other block as it was; with no such block, or with a
\* chapter present, the list is returned unchanged.
Promotable(bs) == { i \in 1..Len(bs) : bs[i].level <= 1 \/ bs[i].formatting.bold }
HasChapter(bs) == \E i \in 1..Len(bs) : bs[i].content_type = "chapter"

C9_StructuralRepair ==
    pc = "returned" =>
        IF ~HasChapter(arg) /\ Promotable(arg) # {}
        THEN LET k == CHOOSE i \in Promotable(arg) : \A j \in Promotable(arg) : i <= j
             IN  /\ Len(ret) = Len(arg)
                 /\ ret[k].content_type = "chapter" /\ ret[k].level = 0
                 /\ ret[k].text = arg[k].text
                 /\ ret[k].formatting = arg[k].formatting
                 /\ ret[k].estimated_length = arg[k].estimated_length
                 /\ \A i \in 1..Len(arg) : i # k => ret[i] = arg[i]
                 /\ Cardinality({ i \in 1..Len(ret) : ret[i].content_type = "chapter" }) = 1
        ELSE ret = arg

\* the repair promoted a bold body block that was not the first block
C9_Witness ==
    /\ pc = "returned"
    /\ Len(arg) >= 2
    /\ ~HasChapter(arg)
    /\ 1 \notin Promotable(arg)
    /\ \E k \in 2..Len(arg) : arg[k].level = 2 /\ ret[k].content_type = "chapter"

\* C10: the classifier returns (0,'chapter') when some chapter pattern matches
\* the start of the text, otherwise (1,'subtitle') when some subtitle pattern
\* matches, otherwise (2,'content'); every text gets exactly one of the three.
MatchesAny(patterns, text) == \E i \in 1..Len(patterns) : re_match(patterns[i], text)

C10_Classifier ==
    pc = "returned" =>
        /\ ret \in { << 0, "chapter" >>, << 1, "subtitle" >>, << 2, "content" >> }
        /\ ret = << 0, "chapter" >> <=> MatchesAny(chapter_patterns, arg)
        /\ ret = << 1, "subtitle" >> <=>
              (~MatchesAny(chapter_patterns, arg) /\ MatchesAny(subtitle_patterns, arg))
        /\ ret = << 2, "content" >> <=>
              (~MatchesAny(chapter_patterns, arg) /\ ~MatchesAny(subtitle_patterns, arg))

\* a text that no chapter pattern matched and the last subtitle pattern did
C10_Witness ==
    /\ pc = "returned"
    /\ ret = << 1, "subtitle" >>
    /\ arg # << >> /\ arg[1] = "bullet"

(***************************************************************************)
(* C11: analyze_document skips empty and whitespace-only paragraphs        *)
(* entirely.  The returned blocks correspond one-to-one and in document    *)
(* order to the non-whitespace paragraphs, each with the trimmed text of   *)
(* its paragraph; the first non-whitespace paragraph is the one given to   *)
(* _classify_header (level 0, no pattern classification) however many      *)
(* blank paragraphs precede it, every later one goes through               *)
(* _analyze_paragraph, and the list returned is the structural repair of   *)
(* the blocks so built.                                                    *)
(***************************************************************************)
IsBlank(para) == strip(para.text) = << >>

NonBlank(para) == ~IsBlank(para)

NonBlankParagraphs == SelectSeq(paragraphs, NonBlank)

\* the block expected of the i-th non-whitespace paragraph before the repair
ExpectedBlock(i) ==
    LET para == NonBlankParagraphs[i]
        text == strip(para.text)
        c == _classify_content(text)
    IN  ContentBlock(text,
                     IF i = 1 THEN 0 ELSE c[1],
                     IF i = 1 THEN "header" ELSE c[2],
                     para.bold,
                     _estimate_text_length(text))

Analyzed == pc \in {"no_content", "create_slides", "loop", "done"}

C11_BlankParagraphsSkipped ==
    Analyzed =>
        /\ Len(blocks) = Len(NonBlankParagraphs)
        /\ \A i \in 1..Len(blocks) :
              /\ blocks[i].text = strip(NonBlankParagraphs[i].text)
              /\ blocks[i].text # << >>
        /\ blocks = _optimize_structure(
                        [i \in 1..Len(NonBlankParagraphs) |-> ExpectedBlock(i)])
        /\ blocks # << >> => /\ blocks[1].level = 0
                             /\ blocks[1].content_type \in {"header", "chapter"}

\* two blank paragraphs, then one the classifier would tag a subtitle, then
\* another: the third paragraph got the header treatment
C11_Witness ==
    /\ Analyzed
    /\ Len(paragraphs) = 4
    /\ IsBlank(paragraphs[1])
    /\ IsBlank(paragraphs[2])
    /\ NonBlank(paragraphs[3])
    /\ NonBlank(paragraphs[4])
    /\ _classify_content(strip(paragraphs[3].text))[2] # "content"
    /\ Len(blocks) = 2
    /\ blocks[1].content_type = "header"
    /\ blocks[1].text = strip(paragraphs[3].text)


(***************************************************************************)
(* C12: create_slides applied to a template whose layout collection is     *)
(* empty always ends in an error, for any input block sequence: it never   *)
(* returns a presentation (with zero slides) as if it had succeeded.       *)
(***************************************************************************)
CreateSlidesEnded == pc \in {"done", "raised"}

C12_EmptyLayoutsAlwaysError ==
    (CreateSlidesEnded /\ template.layouts = << >>) => pc = "raised"


(***************************************************************************)
(* C17: create_slides clears the template before emitting.  No slide the   *)
(* template held is in the presentation once the loop over the blocks      *)
(* runs or after create_slides returned, however many there were; once    *)
(* the template is loaded a slide is only ever added when none of them is  *)
(* left; every iteration that                                              *)
(* opens a slide appends exactly one slide after those opened earlier,     *)
(* which keep their place, and no other step adds one.                     *)
(***************************************************************************)
NoTemplateSlide == \A k \in 1..Len(slides) : slides[k].layout # "template"

SlideAdded ==
    /\ Len(slides') = Len(slides) + 1
    /\ slides'[Len(slides')].layout \in {"title", "content"}
    /\ \A k \in 1..Len(slides) :
          /\ slides'[k].layout = slides[k].layout
          /\ slides'[k].title = slides[k].title

C17_Emitting ==
    /\ (pc = "create_slides" /\ pc' = "clearing") => slides' = LoadedSlides(template)
    /\ (pc # "create_slides" /\ Len(slides') > Len(slides)) =>
          (NoTemplateSlide /\ IsIteration /\ SlideAdded)
    /\ Len(slides') < Len(slides) => pc = "clearing"
    /\ IsIteration => (OpensSlide(blocks[idx]) <=> Len(slides') = Len(slides) + 1)

C17_TemplateCleared ==
    /\ [](pc \in {"loop", "done"} => NoTemplateSlide)
    /\ [][C17_Emitting]_vars

\* create_slides returned two slides or more on a template that held two
C17_Witness ==
    /\ pc = "done"
    /\ template.n_slides >= 2
    /\ Len(slides) >= 2
    /\ NoTemplateSlide


(***************************************************************************)
(* C13: convert never lets an exception cross its boundary.  Whatever      *)
(* raised (document loading or analysis, template loading, slide mapping,  *)
(* saving, preview set-up) is caught and answered with a ConversionResult  *)
(* of success=False and a non-empty error_message; every return carries a  *)
(* result; success=True is returned only when the mapping ran to its end   *)
(* and the save step was completed (the file written when an output_path   *)
(* was given).                                                             *)
(***************************************************************************)
MappingCompleted == blocks # << >> /\ idx = Len(blocks) + 1 /\ Len(slides) >= 1

SavingCompleted == opts.output_path # "" => fs.output

FailedResult ==
    /\ result.returned
    /\ ~result.success
    /\ result.error_message # << >>

C13_Returned ==
    pc = "returned" =>
        /\ result.returned
        /\ exc = ""
        /\ result.success \/ FailedResult
        /\ result.success => (MappingCompleted /\ SavingCompleted)
        /\ ~opts.document_ok => FailedResult
        /\ (blocks # << >> /\ ~template.readable) => FailedResult
        /\ (blocks # << >> /\ template.layouts = << >>) => FailedResult

C13_Caught ==
    pc = "raised" =>
        /\ exc # ""
        /\ pc' = "returned"
        /\ result' = ConversionResult(FALSE, "", << >>, ErrorDetails(exc), 0)

C13_NoExceptionCrosses == []C13_Returned /\ [][C13_Caught]_vars

\* a failed result for an exception of the slide mapping
C13_Witness ==
    /\ pc = "returned"
    /\ FailedResult
    /\ result.error_message = ErrorDetails("IndexError")

(***************************************************************************)
(* C14: a failure during preview generation never fails the conversion.    *)
(* Whenever analysis, mapping and saving succeeded, convert returns        *)
(* success=True with slides_count the number of slides, whatever happened  *)
(* in the preview step.                                                    *)
(***************************************************************************)
C14_PreviewFailureIsolated ==
    (pc = "returned" /\ MappingCompleted /\ SavingCompleted) =>
        /\ result.success
        /\ result.slides_count = Len(slides)

(***************************************************************************)
(* C15: no partial presentation on failure.  Whenever convert returns      *)
(* success=False the result has an empty output_path and a slides_count    *)
(* of 0, and no presentation file was written to the requested             *)
(* output_path during the call.                                            *)
(***************************************************************************)
C15_NoPartialPresentation ==
    (pc = "returned" /\ ~result.success) =>
        /\ result.output_path = ""
        /\ result.slides_count = 0
        /\ ~fs.output

(***************************************************************************)
(* C16: when the document has no non-whitespace paragraph, convert returns *)
(* a failed ConversionResult with an error message; during that call the   *)
(* template is never loaded or cleared, no slide is created and nothing    *)
(* is written.                                                             *)
(***************************************************************************)
C16_NoContent ==
    NonBlankParagraphs = << >> =>
        /\ pc \in {"analyze_document", "no_content", "raised", "returned"}
        /\ slide_layouts = << >>
        /\ slides = << >>
        /\ current_slide = 0
        /\ fs = NoFiles
        /\ pc = "returned" => FailedResult

\* a readable document of two blank paragraphs, answered with the message
\* of the "if not blocks" return
C16_Witness ==
    /\ pc = "returned"
    /\ opts.document_ok
    /\ Len(paragraphs) = 2
    /\ NonBlankParagraphs = << >>
    /\ FailedResult
    /\ result.error_message = << "no content found" >>

(***************************************************************************)
(* C20: the preview keeps working when saving preview images to disk is    *)
(* disabled.  After convert(generate_preview=True,                         *)
(* save_preview_to_disk=False) returned success, every path in             *)
(* preview_images refers to an image file that still exists.               *)
(***************************************************************************)
C20_MemoryPreviewExists ==
    (pc = "returned" /\ result.success /\ opts.generate_preview
        /\ ~opts.save_preview_to_disk) =>
        \A i \in 1..Len(result.preview_images) :
            result.preview_images[i] \in fs.images


(***************************************************************************)
(* C18: pagination is deterministic.  Two runs of analyze_document +       *)
(* create_slides on the same document and the same template come to the    *)
(* same end and produce the same slide sequence (same number of slides,    *)
(* same layouts, titles and body lines in the same order), whatever was    *)
(* converted before or in between.                                         *)
(***************************************************************************)
SameSlides(ss, tt) ==
    /\ Len(ss) = Len(tt)
    /\ \A k \in 1..Len(ss) :
          /\ ss[k].layout_index = tt[k].layout_index
          /\ ss[k].title = tt[k].title
          /\ ss[k].body = tt[k].body

C18_Deterministic ==
    pc \in {"done", "no_content"} =>
        \A i \in 1..Len(ret) :
            ret[i].document = paragraphs =>
                /\ ret[i].ended = pc
                /\ SameSlides(ret[i].slides, Outcome.slides)

\* the third call repeats the first after another document was converted
C18_Witness ==
    /\ pc = "done"
    /\ Len(ret) = 2
    /\ ret[1].document = paragraphs
    /\ ret[2].document # paragraphs
    /\ ret[2].ended = "done"
    /\ Len(slides) >= 2
    /\ SameSlides(ret[1].slides, slides)


(***************************************************************************)
(* C19: concurrent conversions share no mutable pagination state.  When    *)
(* two conversions run concurrently, interleaved at any step, a step of    *)
(* one leaves the other's position, blocks, presentation, current slide,   *)
(* accumulator, accumulated length and chapter title as they were, and     *)
(* the conversion of a document ends the same way and with the same slide  *)
(* sequence as when that document was converted alone.                     *)
(***************************************************************************)
Thread(t) == IF other.tid = t THEN other ELSE Running

Ended(frame) == frame.pc \in {"done", "no_content"}

C19_SameAsAlone ==
    (other.tid # 0 /\ Ended(Thread(1))) =>
        /\ Thread(1).paragraphs = ret[1].document
        /\ Thread(1).pc = ret[1].ended
        /\ Thread(1).pc = "done" => SameSlides(Thread(1).slides, ret[1].slides)

\* a step of the running thread changes nothing of the suspended one
C19_OwnState ==
    (other.tid # 0 /\ other'.tid = other.tid) => other' = other

C19_NoSharedState == []C19_SameAsAlone /\ [][C19_OwnState]_vars

\* both threads ended with slides after each had been suspended midway
C19_Witness ==
    /\ other.tid # 0
    /\ Thread(1).pc = "done"
    /\ Thread(2).pc = "done"
    /\ other.switches >= 3
    /\ Len(Thread(1).slides) >= 2
    /\ Thread(1).slides[2].body # << >>
    /\ SameSlides(Thread(1).slides, ret[1].slides)


(***************************************************************************)
(* C22: each title-cleaning pipeline is order-independent.  For every      *)
(* string at most one pattern of the cleaner removes anything during one   *)
(* application, and applying the patterns in another order gives the same  *)
(* result as the order of the code.                                        *)
(***************************************************************************)
\* the patterns that remove something while the loop runs over text
RECURSIVE RemovingPatterns(_, _, _)
RemovingPatterns(patterns, i, text) ==
    IF i > Len(patterns) THEN {}
    ELSE (IF re_sub(patterns[i], text) # text THEN {i} ELSE {})
         \cup RemovingPatterns(patterns, i + 1, re_sub(patterns[i], text))

CleanerPatterns ==
    IF pc = "_clean_chapter_text" THEN chapter_clean_patterns ELSE subtitle_clean_patterns

C22_OrderIndependent ==
    Len(ret) = 2 =>
        /\ Cardinality(RemovingPatterns(CleanerPatterns, 1, arg)) <= 1
        /\ ret[2] = ret[1]


(***************************************************************************)
(* C23: every continuation slide, whether opened by a subtitle block or by *)
(* a content block that triggers a page break, has the title exactly       *)
(* currentChapterTitle + " (續)", where currentChapterTitle is the cleaned *)
(* text of the most recent header block or the raw text of the most        *)
(* recent chapter block, whichever came later in the stream (empty if      *)
(* neither has occurred).                                                  *)
(***************************************************************************)
\* currentChapterTitle after the first i blocks of bs, read off the stream
RECURSIVE ChapterTitleAfter(_, _)
ChapterTitleAfter(bs, i) ==
    IF i = 0 THEN << >>
    ELSE IF bs[i].content_type = "header" THEN _clean_chapter_text(bs[i].text)
    ELSE IF bs[i].content_type = "chapter" THEN bs[i].text
    ELSE ChapterTitleAfter(bs, i - 1)

\* the iteration a step performs opens a continuation slide
OpensContinuation ==
    /\ IsIteration
    /\ \/ IterBlock.content_type = "subtitle"
       \/ /\ IterBlock.content_type \notin {"header", "chapter", "subtitle"}
          /\ _should_create_new_slide(current_content, current_content_length, IterBlock)

C23_Titled ==
    OpensContinuation =>
        /\ Len(slides') = Len(slides) + 1
        /\ slides'[Len(slides')].title = ChapterTitleAfter(blocks', idx - 1) \o ContinuedSuffix

C23_ContinuationTitle == [][C23_Titled]_vars


(***************************************************************************)
(* C24: body content is conserved.  For every input block sequence the     *)
(* body lines of the slides create_slides returns, concatenated in slide   *)
(* order, are the texts of the blocks that are neither header nor chapter, *)
(* in input order and verbatim: none lost, duplicated, reordered or        *)
(* cleaned, and no header or chapter text among them.                      *)
(***************************************************************************)
RECURSIVE BodyLines(_, _)
BodyLines(ss, k) == IF k > Len(ss) THEN << >> ELSE ss[k].body \o BodyLines(ss, k + 1)

IsBodyBlock(block) == block.content_type \notin {"header", "chapter"}

TextsOf(bs) == [i \in 1..Len(bs) |-> bs[i].text]

C25_Opened ==
    (IsIteration /\ current_slide = 0 /\ IsBodyBlock(IterBlock)
        /\ IterBlock.content_type # "subtitle") =>
        /\ Len(slides') = Len(slides) + 1
        /\ slides'[Len(slides')].layout = "content"
        /\ slides'[Len(slides')].title = _clean_subtitle_text(IterBlock.text)
        /\ current_slide' = Len(slides')
        /\ current_content' = << IterBlock >>

C25_ContentWithoutSlide == [][C25_Opened]_vars

(***************************************************************************)
(* C26: every slide opened during the pass is emitted.  Once the loop      *)
(* runs no slide is ever removed or retitled; the slide an iteration       *)
(* closes, and the slide still open at the end of the stream, receive the  *)
(* accumulated content as body; a slide that never received content stays  *)
(* in the output with an empty body.                                       *)
(***************************************************************************)
C26_Kept ==
    pc = "loop" =>
        /\ Len(slides') >= Len(slides)
        /\ \A k \in 1..Len(slides) :
              /\ slides'[k].title = slides[k].title
              /\ slides'[k].layout = slides[k].layout
              /\ k # current_slide => slides'[k].body = slides[k].body

C26_Flushed ==
    (pc = "loop" /\ current_slide # 0 /\ (current_slide' # current_slide \/ pc' = "done")) =>
        slides'[current_slide].body = TextsOf(current_content)

ThirdClauseDecides(content, current_length, new_block) ==
    /\ ~(Len(content) >= max_content_items)
    /\ ~(current_length + new_block.estimated_length > max_content_length)
    /\ new_block.content_type = "subtitle"
    /\ Len(content) > 0

C27_Called ==
    arg' # arg =>
        /\ IsIteration
        /\ arg' = << current_content, current_content_length, IterBlock >>
        /\ IterBlock.content_type \notin {"header", "chapter", "subtitle"}

C27_NeverForSubtitle ==
    /\ [](arg # << >> =>
             /\ arg[3].content_type \notin {"header", "chapter", "subtitle"}
             /\ ~ThirdClauseDecides(arg[1], arg[2], arg[3]))
    /\ [][C27_Called]_vars

\* a subtitle arrived on a non-empty accumulator after the decision had
\* been evaluated for the content block before it
C27_Witness ==
    /\ pc = "loop"
    /\ Len(blocks) >= 3
    /\ idx = Len(blocks) + 1
    /\ blocks[Len(blocks)].content_type = "subtitle"
    /\ blocks[Len(blocks) - 1].content_type = "content"
    /\ arg # << >>
    /\ arg[3] = blocks[Len(blocks) - 1]

(***************************************************************************)
(* C30: slide count bound.  Every header, chapter and subtitle block opens *)
(* exactly one slide and every content block at most one, so for any       *)
(* non-empty block sequence the number of slides create_slides returns is  *)
(* at least 1, at most the number of blocks, and at least the number of    *)
(* header, chapter and subtitle blocks.                                    *)
(***************************************************************************)
IsStructural(block) == block.content_type \in {"header", "chapter", "subtitle"}

C30_PerBlock ==
    IsIteration =>
        IF IsStructural(IterBlock)
        THEN Len(slides') = Len(slides) + 1
        ELSE Len(slides') \in {Len(slides), Len(slides) + 1}

C30_SlideCountBound ==
    /\ []((pc = "done" /\ blocks # << >>) =>
             /\ Len(slides) >= 1
             /\ Len(slides) <= Len(blocks)
             /\ Len(slides) >= Len(SelectSeq(blocks, IsStructural)))
    /\ [][C30_PerBlock]_vars

\* six blocks, three of them structural, on four slides
C30_Witness ==
    /\ pc = "done"
    /\ Len(blocks) = 6
    /\ Len(SelectSeq(blocks, IsStructural)) = 3
    /\ Len(slides) = 4


\* C21: in the Streamlit front end the limits chosen with the sliders govern
\* pagination: no slide of a conversion started by perform_conversion holds
\* more items than the item slider says, nor several blocks whose lengths
\* add up to more than the length slider says.
C21_SlidersGovern ==
    (ui.app = "streamlit" /\ pc \in {"loop", "done"}) =>
        \A k \in 1..Len(slides) :
            /\ Len(SlideBlocks(k)) <= ui.max_content_items
            /\ \/ Len(SlideBlocks(k)) <= 1
               \/ SumLength(SlideBlocks(k)) <= ui.max_content_length


\* the signals of a given name among those emitted, in order
Emitted(name) == SelectSeq(ui.signals, LAMBDA e : e.name = name)

IsTerminal(e) == e.name \in {"finished_successfully", "error_occurred"}

TerminalSignals == SelectSeq(ui.signals, IsTerminal)

\* what the worker's conversion has achieved: convert returned a successful
\* result (standalone), the presentation was saved (universal)
ConversionSucceeded ==
    IF ui.app = "standalone" THEN result.returned /\ result.success
    ELSE fs.output /\ blocks # << >>

\* C29: a run of a ConversionWorker emits exactly one terminal signal: none
\* while it runs, one when it is over, and nothing after it;
\* finished_successfully is emitted only after the conversion succeeded, and
\* the progress values emitted are non-decreasing.
C29_OneTerminalSignal ==
    ui.app \in {"standalone", "universal"} =>
        /\ Len(TerminalSignals) = (IF pc = "finished" THEN 1 ELSE 0)
        /\ pc = "finished" => IsTerminal(ui.signals[Len(ui.signals)])
        /\ Emitted("finished_successfully") # << >> => ConversionSucceeded
        /\ \A i \in 1..Len(Emitted("progress_updated")) - 1 :
              Emitted("progress_updated")[i].value
                 <= Emitted("progress_updated")[i + 1].value
        /\ pc = "finished" => Len(Emitted("progress_updated")) >= 1

\* a standalone run that announced success for a presentation of two slides
\* after the progress values 10, 50, 100
C29_Witness ==
    /\ pc = "finished"
    /\ ui.app = "standalone"
    /\ Emitted("finished_successfully") # << >>
    /\ Len(Emitted("progress_updated")) = 3
    /\ Len(slides) >= 2


\* the workers that have not emitted their terminal signal yet
RunningWorkers == { w \in 1..Len(ui.workers) : ui.workers[w] = "running" }

\* C28: in the desktop front end at most one conversion worker runs at a
\* time: while a started worker has not emitted finished_successfully or
\* error_occurred, the convert button is disabled and no second worker has
\* been started, whatever files were selected or cleared in between.
C28_OneWorkerAtATime ==
    ui.app = "desktop" =>
        /\ Cardinality(RunningWorkers) <= 1
        /\ RunningWorkers # {} => ~ui.convert_btn /\ ui.worker \in RunningWorkers

=============================================================================
